---- MODULE Spec2Model ----
(***************************************************************************)
(* A model of rsignal (packages/rsignal/lib/main.ts): listener groups,     *)
(* signals, effect contexts and the combinators built on them.             *)
(*                                                                         *)
(* JavaScript runs one synchronous task at a time; a call made from inside *)
(* a listener runs nested, before the listeners after it in the same       *)
(* dispatch. The model keeps that order with an explicit call stack:       *)
(* `stack` holds the pieces of synchronous code still to run, innermost    *)
(* first. A task (a user call, a promise reaction) starts only when the    *)
(* stack is empty, and every Step action runs the piece on top.            *)
(***************************************************************************)
EXTENDS Integers, Sequences, FiniteSets, TLC

VARIABLES
  sig,        \* the signals created so far: payload, error, cancelled, lastContext
  ctx,        \* the effect contexts created so far, in creation order
  callbacks,  \* the callbacks array of every listener group
  active,     \* the removers whose `active` flag is still true, and a mark
              \* for each remover whose flag went false
  wait,       \* the waits (all, race, when) started so far
  chain,      \* the chains started so far
  stack,      \* the synchronous code still to run, innermost first
  fired       \* history: the dispatches of signals' groups, the user functions run

vars == <<sig, ctx, callbacks, active, wait, chain, stack, fired>>

(***************************************************************************)
(* Bounds                                                                  *)
(***************************************************************************)
\* the number of invocations user code makes in a run of Spec (each creates
\* one effect context)
MaxContexts == 2

\* the number of invocations (forks included) in a run of SpecFork
MaxForkContexts == 2

\* the number of invocations in a run of SpecOn
MaxOnContexts == 2

\* the number of invocations user code makes in a run of SpecWait
MaxWaitContexts == 3

\* the number of invocations user code makes in a run of SpecChain
MaxChainContexts == 3

\* the number of invocations user code makes in a run of SpecGroup
MaxGroupContexts == 2

\* the number of invocations user code makes in a run of SpecPlain
MaxPlainContexts == 3

\* the number of invocations user code makes in a run of SpecThrow
MaxThrowContexts == 3

\* the number of invocations user code makes in a run of SpecCancel
MaxCancelContexts == 2

\* the number of invocations user code makes in a run of SpecWhen
MaxWhenContexts == 3

\* the number of invocations user code makes in a run of SpecWaitCancel
MaxWaitCancelContexts == 3

\* the number of invocations and of reset() calls user code makes in a run
\* of SpecReset
MaxResetContexts == 2
MaxResets == 2
\* invocations in a run of SpecChainList
MaxListContexts == 3
\* invocations in a run of SpecChainCancel
MaxChainCancelContexts == 3
\* invocations by user code in a run of SpecChainError
MaxChainErrorContexts == 3
\* registrations on the emit group in a run of SpecRemover
MaxRegistrations == 3
\* invocations in a run of SpecDispose
MaxDisposeContexts == 3

(***************************************************************************)
(* Values                                                                  *)
(***************************************************************************)
\* JavaScript's undefined, as the value of payload and error
undefined == -1

\* the payloads an effect returns or resolves with
Payloads == {1, 2}

\* the reasons an effect throws or rejects with
Errors == {1}

\* the JavaScript value false, as a payload
falseValue == -2

\* no owning context (lastContext = undefined)
NoContext == 0

\* no previous signal (handleNext() called without prevSignal)
NoSignal == 0

(***************************************************************************)
(* createCallbackGroup                                                     *)
(***************************************************************************)
EmitGroup(s) == <<"onEmit", s>>
ErrorGroup(s) == <<"onError", s>>
LoadingGroup(s) == <<"onLoading", s>>
CancelGroup(c) == <<"onCancel", c>>
DisposeGroup(c) == <<"onDispose", c>>
\* the k-th group made by `const cleanup = createCallbackGroup()`
CleanupGroup(k) == <<"cleanup", k>>

\* callbacks.indexOf(callback), 1-based; 0 when absent (the source's -1)
indexOf(list, callback) ==
  IF \E i \in 1..Len(list) : list[i] = callback
  THEN CHOOSE i \in 1..Len(list) :
         /\ list[i] = callback
         /\ \A j \in 1..(i - 1) : list[j] # callback
  ELSE 0

\* callbacks.splice(index, 1)
splice(list, index) ==
  [i \in 1..(Len(list) - 1) |-> IF i < index THEN list[i] ELSE list[i + 1]]

\* the closure add() returns: it names its group and callback; n tells apart
\* the removers of several add() calls of one callback to one group
Remover(group, callback, n) ==
  [op |-> "remove", group |-> group, callback |-> callback, n |-> n]

\* the remover the next add(callback) on this group returns
NewRemover(group, callback, made) ==
  Remover(group, callback,
          Cardinality({r \in made : r.group = group /\ r.callback = callback}))

\* add(callback): callbacks.push(callback)
add(cbs, group, callback) == [cbs EXCEPT ![group] = Append(@, callback)]

\* the body of a remover once its active flag was found true
remove(cbs, group, callback) ==
  LET index == indexOf(cbs[group], callback) IN
  IF index # 0 THEN [cbs EXCEPT ![group] = splice(@, index)] ELSE cbs

\* group.call(...args): the instruction that takes the snapshot
call(group, arg) == [op |-> "call", group |-> group, arg |-> arg]

\* a run of add() calls: each registration is <<group, callback>>
RECURSIVE addAll(_, _)
addAll(cbs, registrations) ==
  IF registrations = <<>> THEN cbs
  ELSE addAll(add(cbs, registrations[1][1], registrations[1][2]),
              Tail(registrations))

\* the cleanup groups created so far
Cleanups == {g \in DOMAIN callbacks : g[1] = "cleanup"}

\* the listener onDispose.add(cleanup.call) registers, and its remover
cleanupCall(k) == call(CleanupGroup(k), undefined)
disposeRemover(c, k) == Remover(DisposeGroup(c), cleanupCall(k), 0)

\* const cleanup = createCallbackGroup();
\* cleanup.add(onDispose.add(cleanup.call))
newCleanup(cbs, c, k) ==
  addAll((CleanupGroup(k) :> <<>>) @@ cbs,
         << <<DisposeGroup(c), cleanupCall(k)>>,
            <<CleanupGroup(k), disposeRemover(c, k)>> >>)

(***************************************************************************)
(* Instructions: the pieces of synchronous code the stack holds            *)
(***************************************************************************)
\* an effect: what the function does with its context before it returns
\* (body) and what it returns
Effect(body, returns, value, cancellable) ==
  [body |-> body, returns |-> returns, value |-> value,
   cancellable |-> cancellable]

Value(v) == Effect(<<>>, "value", v, FALSE)
Throw(e) == Effect(<<>>, "throw", e, FALSE)
ReturnFalse == Effect(<<>>, "false", undefined, FALSE)
\* if (typeof nextPayload !== "function") nextPayload = () => p: a plain
\* value p becomes the effect that returns p, and a result that is false
\* ends the invocation
plain(p) ==
  Effect(<<>>, IF p = falseValue THEN "false" ELSE "value", p, FALSE)

\* a promise without cancel(), and one with (as delay() returns)
Async == Effect(<<>>, "promise", undefined, FALSE)
AsyncCancellable == Effect(<<>>, "promise", undefined, TRUE)

\* signal(nextPayload, noDispose)
invoke(s, effect, noDispose) ==
  [op |-> "signal", s |-> s, effect |-> effect, noDispose |-> noDispose]

contextCancel(c) == [op |-> "context.cancel", context |-> c]
contextDispose(c) == [op |-> "context.dispose", context |-> c]
signalCancel(s) == [op |-> "signal.cancel", s |-> s]

\* signal.reset(removeAllListeners)
signalReset(s, removeAllListeners) ==
  [op |-> "signal.reset", s |-> s, removeAllListeners |-> removeAllListeners]

\* context.when(awaitable), the awaitable a signal
contextWhen(c, s) == [op |-> "context.when", context |-> c, signal |-> s]

\* several calls user code makes one after the other in one synchronous task
block(do) == [op |-> "block", do |-> do]

\* context.onCancel(listener)
contextOnCancel(c, callback) ==
  [op |-> "context.onCancel", context |-> c, callback |-> callback]

\* context.fork(payload)
contextFork(c, effect) ==
  [op |-> "context.fork", context |-> c, effect |-> effect]

\* context.on(signals, onEmit); signals is the flattened SignalList
contextOn(c, signals) ==
  [op |-> "context.on", context |-> c, signals |-> signals]

\* () => onEmit(signal), the listener context.on registers for subscription k
onEmitCallback(k, s) == [op |-> "onEmit", subscription |-> k, signal |-> s]

\* wait(race, awaitables, options): context.all is wait(false, ...) and
\* context.race is wait(true, ...); the key of signals[i] is i
contextWait(c, race, signals) ==
  [op |-> "context.wait", context |-> c, race |-> race, signals |-> signals]

\* () => onDone(key, s), the listener wait w registers for a key
onDoneListener(w, key) == [op |-> "onDone", wait |-> w, key |-> key]

\* context.chain(inputEntries)
contextChain(c, entries) ==
  [op |-> "context.chain", context |-> c, entries |-> entries]

\* a chain item that is a signal or a (flattened) list of signals
Wait(signals) == [type |-> "signals", signals |-> signals]
\* what a step function returns besides signals: "restart", or a falsy value
Restart == [type |-> "restart"]
Nothing == [type |-> "nothing"]
\* a chain item that is a step function: returns[prev] is its result
Step(returns) == [type |-> "function", returns |-> returns]

\* handleNext(prevSignal)
handleNext(ch, prev) == [op |-> "handleNext", chain |-> ch, prev |-> prev]

\* () => handleNext(signal): the i-th emit listener of cleanup group k
handleNextListener(ch, s, k, i) ==
  [op |-> "handleNext", chain |-> ch, prev |-> s, cleanup |-> k, index |-> i]

\* handleError: one function per chain, registered on every signal
handleError(ch) == [op |-> "handleError", chain |-> ch]

\* a function written by the user of the library, registered as a listener
\* or passed as an option; what it does when called is Do(id)
Fn(id) == [op |-> "fn", id |-> id]

\* group.add(callback) called by user code, as signal.onEmit(callback)
subscribe(group, callback) ==
  [op |-> "add", group |-> group, callback |-> callback]

\* what the user functions do: b removes itself from the emit group of
\* signal 1, c removes a from it, d adds e to it; the others only run
Do(id) ==
  CASE id = "b" -> <<Remover(EmitGroup(1), Fn("b"), 0)>>
    [] id = "c" -> <<Remover(EmitGroup(1), Fn("a"), 0)>>
    [] id = "d" -> <<subscribe(EmitGroup(1), Fn("e"))>>
    [] OTHER -> <<>>

\* a listener written by the user of the library: it runs one call
listener(do) == [op |-> "listener", do |-> do]

Top == Head(stack)
Rest == Tail(stack)
Running(op) == stack # <<>> /\ Top.op = op

(***************************************************************************)
(* Listener group dispatch                                                 *)
(***************************************************************************)
\* call(): callbacks.slice() is taken when call() starts. The history
\* records the dispatch of a signal's group (emit, error, loading): it fires
\* with arg while these callbacks are registered; the dispatches of other
\* groups are not recorded
StepCall ==
  /\ Running("call")
  /\ stack' = <<[op |-> "forEach", group |-> Top.group,
                 list |-> callbacks[Top.group], arg |-> Top.arg]>> \o Rest
  /\ fired' = IF Top.group[1] \in {"onEmit", "onError", "onLoading"}
              THEN Append(fired, [type |-> "call", group |-> Top.group,
                                  arg |-> Top.arg,
                                  registered |-> callbacks[Top.group]])
              ELSE fired
  /\ UNCHANGED <<sig, ctx, callbacks, active, wait, chain>>

\* a forEach over the live array: a callback removed meanwhile is skipped
pendingLive(frame, cbs) ==
  LET Registered(callback) ==
        \E i \in 1..Len(cbs[frame.group]) : cbs[frame.group][i] = callback
  IN SelectSeq(frame.list, Registered)

\* callbacks.slice().forEach: the callbacks still to run are those of the
\* copy, whatever the array holds by now
pending(frame, cbs) == frame.list

\* forEach over the snapshot: the next callback runs, nested
StepForEach ==
  /\ Running("forEach")
  /\ LET list == pending(Top, callbacks) IN
     stack' = IF list = <<>> THEN Rest
              ELSE <<Head(list), [Top EXCEPT !.list = Tail(list)]>> \o Rest
  /\ UNCHANGED <<sig, ctx, callbacks, active, wait, chain, fired>>

\* a user's listener runs its call
StepListener ==
  /\ Running("listener")
  /\ stack' = <<Top.do>> \o Rest
  /\ UNCHANGED <<sig, ctx, callbacks, active, wait, chain, fired>>

\* a user function is called: the history records it, then it runs
StepFn ==
  /\ Running("fn")
  /\ fired' = Append(fired, [type |-> "fn", id |-> Top.id])
  /\ stack' = Do(Top.id) \o Rest
  /\ UNCHANGED <<sig, ctx, callbacks, active, wait, chain>>

\* add(callback) called by user code: the remover it returns is active
StepAdd ==
  /\ Running("add")
  /\ callbacks' = add(callbacks, Top.group, Top.callback)
  /\ active' = active \cup {NewRemover(Top.group, Top.callback, active)}
  /\ stack' = Rest
  /\ UNCHANGED <<sig, ctx, wait, chain, fired>>

\* user code makes its calls in order
StepBlock ==
  /\ Running("block")
  /\ stack' = Top.do \o Rest
  /\ UNCHANGED <<sig, ctx, callbacks, active, wait, chain, fired>>

\* the remover returned by add(). Once its active flag is false it leaves a
\* mark: it is no remover any more, and the mark keeps a later add() from
\* making the same one
StepRemove ==
  /\ Running("remove")
  /\ IF Top \in active
     THEN /\ active' = (active \ {Top}) \cup {[Top EXCEPT !.op = "spent"]}
          /\ callbacks' = remove(callbacks, Top.group, Top.callback)
     ELSE UNCHANGED <<active, callbacks>>
  /\ stack' = Rest
  /\ UNCHANGED <<sig, ctx, wait, chain, fired>>

(***************************************************************************)
(* signal: invocation                                                      *)
(***************************************************************************)
\* signal(options): the state of a new signal. forkedBy is the context whose
\* fork() created it (NoContext for a signal made by signal() or spawn());
\* onCancel is options.onCancel, <<>> when absent.
NewSignal(defaultPayload, forkedBy) ==
  [payload |-> defaultPayload, error |-> undefined, cancelled |-> FALSE,
   lastContext |-> NoContext, forkedBy |-> forkedBy,
   defaultPayload |-> defaultPayload, onCancel |-> <<>>]

\* the three listener groups of a new signal
SignalGroups(s) ==
  [g \in {EmitGroup(s), ErrorGroup(s), LoadingGroup(s)} |-> <<>>]

\* createSignalContext(): the context's own state
NewContext(s, effect, noDispose) ==
  [cancelled |-> FALSE, promise |-> FALSE, signal |-> s,
   noDispose |-> noDispose, cancellable |-> effect.cancellable,
   result |-> "none"]

\* the calls the effect makes on its context before it returns
Body(effect, c) ==
  [i \in 1..Len(effect.body) |-> [effect.body[i] EXCEPT !.context = c]]

\* signal(nextPayload, noDispose) up to the call of the effect
StepSignal ==
  /\ Running("signal")
  /\ LET s == Top.s
         c == Len(ctx) + 1
     IN /\ sig' = [sig EXCEPT ![s].cancelled = FALSE,
                              ![s].error = undefined,
                              ![s].lastContext = NoContext]
        /\ ctx' = Append(ctx, NewContext(s, Top.effect, Top.noDispose))
        /\ callbacks' = (CancelGroup(c) :> <<>>) @@ (DisposeGroup(c) :> <<>>)
                          @@ callbacks
        /\ stack' = Body(Top.effect, c)
                      \o <<[op |-> "result", context |-> c,
                            returns |-> Top.effect.returns,
                            value |-> Top.effect.value]>>
                      \o Rest
  /\ UNCHANGED <<active, wait, chain, fired>>

\* !noDispose && context.dispose()
disposeUnlessKept(c) ==
  IF ctx[c].noDispose THEN <<>> ELSE <<contextDispose(c)>>

\* a catch block that does not store the exception
failedSilently(signal, ex) == signal

\* catch (ex) { error = ex; ... }
failed(signal, ex) == [signal EXCEPT !.error = ex]

\* the effect has returned or thrown
StepResult ==
  /\ Running("result")
  /\ LET c == Top.context
         s == ctx[c].signal
     IN CASE Top.returns = "false" ->
               /\ stack' = Rest
               /\ UNCHANGED <<sig, ctx>>
          [] Top.returns = "promise" ->
               /\ sig' = [sig EXCEPT ![s].lastContext = c]
               /\ ctx' = [ctx EXCEPT ![c].promise = TRUE,
                                     ![c].result = "pending"]
               /\ stack' = <<call(LoadingGroup(s), c)>> \o Rest
          [] Top.returns = "value" ->
               /\ sig' = [sig EXCEPT ![s].payload = Top.value]
               /\ stack' = disposeUnlessKept(c)
                             \o <<call(EmitGroup(s), undefined)>> \o Rest
               /\ UNCHANGED ctx
          [] Top.returns = "throw" ->
               /\ sig' = [sig EXCEPT ![s] = failed(@, Top.value)]
               /\ stack' = disposeUnlessKept(c)
                             \o <<call(ErrorGroup(s), Top.value)>> \o Rest
               /\ UNCHANGED ctx
  /\ UNCHANGED <<callbacks, active, wait, chain, fired>>

\* a settlement handler without the owning-context check
supersededNever(s, c) == FALSE

\* lastContext !== context: the settlement belongs to a superseded invocation
superseded(s, c) == sig[s].lastContext # c

\* result.then((value) => ...)
StepThen ==
  /\ Running("then")
  /\ LET c == Top.context
         s == ctx[c].signal
     IN IF superseded(s, c)
        THEN /\ stack' = Rest
             /\ UNCHANGED sig
        ELSE /\ sig' = [sig EXCEPT ![s].payload = Top.value,
                                   ![s].lastContext = NoContext]
             /\ stack' = <<contextDispose(c), call(EmitGroup(s), undefined)>>
                           \o Rest
  /\ UNCHANGED <<ctx, callbacks, active, wait, chain, fired>>

\* result.then(...).catch((reason) => ...)
StepCatch ==
  /\ Running("catch")
  /\ LET c == Top.context
         s == ctx[c].signal
     IN IF superseded(s, c)
        THEN /\ stack' = Rest
             /\ UNCHANGED sig
        ELSE /\ sig' = [sig EXCEPT ![s].lastContext = NoContext,
                                   ![s].error = Top.value]
             /\ stack' = disposeUnlessKept(c)
                           \o <<call(ErrorGroup(s), Top.value)>> \o Rest
  /\ UNCHANGED <<ctx, callbacks, active, wait, chain, fired>>

\* signal.cancel() up to lastContext.cancel()
StepSignalCancel ==
  /\ Running("signal.cancel")
  /\ stack' = IF sig[Top.s].lastContext = NoContext THEN Rest
              ELSE <<contextCancel(sig[Top.s].lastContext),
                     [op |-> "signal.cancelled", s |-> Top.s]>> \o Rest
  /\ UNCHANGED <<sig, ctx, callbacks, active, wait, chain, fired>>

\* a cancel() that calls the configured callback twice
notifyTwice(signal) == signal.onCancel \o signal.onCancel

\* options?.onCancel?.()
notify(signal) == signal.onCancel

\* signal.cancel() after lastContext.cancel() has returned
StepSignalCancelled ==
  /\ Running("signal.cancelled")
  /\ sig' = [sig EXCEPT ![Top.s].error = undefined,
                        ![Top.s].lastContext = NoContext,
                        ![Top.s].cancelled = TRUE]
  /\ stack' = notify(sig[Top.s]) \o Rest
  /\ UNCHANGED <<ctx, callbacks, active, wait, chain, fired>>

\* a reset() that keeps the owning context
attached(signal) == signal

\* reset: lastContext = undefined
detached(signal) == [signal EXCEPT !.lastContext = NoContext]

\* clear(): callbacks.length = 0, for the three groups of a signal
clear(cbs, s) ==
  [g \in DOMAIN cbs |->
     IF g \in {EmitGroup(s), ErrorGroup(s), LoadingGroup(s)}
     THEN <<>> ELSE cbs[g]]

\* signal.reset(removeAllListeners); the history records the call and the
\* number of contexts created before it
StepSignalReset ==
  /\ Running("signal.reset")
  /\ LET s == Top.s IN
     /\ sig' = [sig EXCEPT ![s] =
                  [detached(@) EXCEPT !.error = undefined,
                                      !.cancelled = FALSE,
                                      !.payload = sig[s].defaultPayload]]
     /\ callbacks' = IF Top.removeAllListeners THEN clear(callbacks, s)
                     ELSE callbacks
     /\ stack' = <<call(EmitGroup(s), undefined)>> \o Rest
     /\ fired' = Append(fired, [type |-> "reset", s |-> s,
                                contexts |-> Len(ctx)])
  /\ UNCHANGED <<ctx, active, wait, chain>>

(***************************************************************************)
(* createSignalContext: cancel and dispose                                 *)
(***************************************************************************)
\* context.promise?.cancel(): a result with cancel() never settles afterwards
cancelPromise(context) ==
  IF context.promise /\ context.cancellable /\ context.result = "pending"
  THEN [context EXCEPT !.result = "stopped"]
  ELSE context

\* a cancel() that fires the dispose listeners before the cancel listeners
teardownReversed(c) ==
  <<call(DisposeGroup(c), undefined), call(CancelGroup(c), undefined)>>

\* onCancel.call(); onDispose.call()
teardown(c) ==
  <<call(CancelGroup(c), undefined), call(DisposeGroup(c), undefined)>>

\* context.cancel()
StepContextCancel ==
  /\ Running("context.cancel")
  /\ LET c == Top.context IN
     IF ctx[c].cancelled
     THEN /\ stack' = Rest
          /\ UNCHANGED ctx
     ELSE /\ ctx' = [ctx EXCEPT ![c] = cancelPromise([@ EXCEPT !.cancelled = TRUE])]
          /\ stack' = teardown(c) \o Rest
  /\ UNCHANGED <<sig, callbacks, active, wait, chain, fired>>

\* context.onCancel(listener): onCancel.add(listener)
StepContextOnCancel ==
  /\ Running("context.onCancel")
  /\ LET group == CancelGroup(Top.context) IN
     /\ callbacks' = add(callbacks, group, Top.callback)
     /\ active' = active \cup {NewRemover(group, Top.callback, active)}
  /\ stack' = Rest
  /\ UNCHANGED <<sig, ctx, wait, chain, fired>>

\* context.dispose()
StepContextDispose ==
  /\ Running("context.dispose")
  /\ stack' = <<call(DisposeGroup(Top.context), undefined)>> \o Rest
  /\ UNCHANGED <<sig, ctx, callbacks, active, wait, chain, fired>>

(***************************************************************************)
(* createSignalContext: fork                                               *)
(***************************************************************************)
\* a fork that does not tie the child to its parent's disposal
forkUnregistered(cbs, c, n) == cbs

\* onDispose.add(newSignal.cancel)
forkRegister(cbs, c, n) == add(cbs, DisposeGroup(c), signalCancel(n))

\* a fork that keeps the child's context alive, as spawn does
forkInvokeKeptAlive(n, effect) == invoke(n, effect, TRUE)

\* newSignal(payload): no second argument, so noDispose = false
forkInvoke(n, effect) == invoke(n, effect, FALSE)

\* context.fork(payload, ...args)
StepContextFork ==
  /\ Running("context.fork")
  /\ LET c == Top.context
         n == Len(sig) + 1
     IN /\ sig' = Append(sig, NewSignal(undefined, c))
        /\ callbacks' = forkRegister(SignalGroups(n) @@ callbacks, c, n)
        /\ stack' = <<forkInvoke(n, Top.effect)>> \o Rest
  /\ UNCHANGED <<ctx, active, wait, chain, fired>>

(***************************************************************************)
(* createSignalContext: on                                                 *)
(***************************************************************************)
\* forEachSignal(signals, (signal) => { signal.onEmit(() => onEmit(signal)) })
\* the removers signal.onEmit returns are dropped
onRegistrations(k, signals) ==
  [i \in 1..Len(signals) |->
     <<EmitGroup(signals[i]), onEmitCallback(k, signals[i])>>]

\* context.on(signals, onEmit); it returns cleanup.call
StepContextOn ==
  /\ Running("context.on")
  /\ LET c == Top.context
         k == Cardinality(Cleanups) + 1
     IN /\ callbacks' = addAll(newCleanup(callbacks, c, k),
                               onRegistrations(k, Top.signals))
        /\ active' = active \cup {disposeRemover(c, k)}
  /\ stack' = Rest
  /\ UNCHANGED <<sig, ctx, wait, chain, fired>>

\* the user's onEmit(signal) runs
StepOnEmit ==
  /\ Running("onEmit")
  /\ stack' = Rest
  /\ UNCHANGED <<sig, ctx, callbacks, active, wait, chain, fired>>

(***************************************************************************)
(* createSignalContext: wait (all, race)                                   *)
(***************************************************************************)
\* the state of a wait: the locals of the promise executor, the promise and
\* the number of calls of options.onDone and options.onError; for a wait
\* made by when(), `then` is the state of the promise when() returns and
\* `value` what it resolved with
NewWait(c, race, signals, k) ==
  [context |-> c, race |-> race, signalList |-> signals, doneCount |-> 0,
   done |-> FALSE, result |-> {}, cleanup |-> k, promise |-> "pending",
   reason |-> undefined, onDone |-> 0, onError |-> 0,
   then |-> "none", value |-> undefined]

\* s.onEmit(() => onDone(key, s)) and s.onError(() => onDone(key, s)) of one
\* key, with the cleanup.add of their removers
keyRegistrations(w, k, key, s) ==
  << <<EmitGroup(s), onDoneListener(w, key)>>,
     <<CleanupGroup(k), Remover(EmitGroup(s), onDoneListener(w, key), 0)>>,
     <<ErrorGroup(s), onDoneListener(w, key)>>,
     <<CleanupGroup(k), Remover(ErrorGroup(s), onDoneListener(w, key), 0)>> >>

\* Object.keys(awaitables).forEach(...)
RECURSIVE waitRegistrations(_, _, _, _)
waitRegistrations(w, k, signals, key) ==
  IF key > Len(signals) THEN <<>>
  ELSE keyRegistrations(w, k, key, signals[key])
         \o waitRegistrations(w, k, signals, key + 1)

\* the removers a run of registrations hands to a cleanup group
removersOf(registrations) ==
  {registrations[i][2] : i \in {j \in 1..Len(registrations) :
                                  registrations[j][2].op = "remove"}}

\* wait(race, awaitables, options), every awaitable a signal
StepContextWait ==
  /\ Running("context.wait")
  /\ LET c == Top.context
         w == Len(wait) + 1
         k == Cardinality(Cleanups) + 1
         registrations == waitRegistrations(w, k, Top.signals, 1)
     IN /\ wait' = Append(wait, NewWait(c, Top.race, Top.signals, k))
        /\ callbacks' = addAll(newCleanup(callbacks, c, k), registrations)
        /\ active' = active \cup {disposeRemover(c, k)}
                       \cup removersOf(registrations)
  /\ stack' = Rest
  /\ UNCHANGED <<sig, ctx, chain, fired>>

\* context.when(awaitable), the awaitable a signal:
\* wait(true, { awaitable }).then(() => s.payload())
StepContextWhen ==
  /\ Running("context.when")
  /\ LET c == Top.context
         w == Len(wait) + 1
         k == Cardinality(Cleanups) + 1
         registrations == waitRegistrations(w, k, <<Top.signal>>, 1)
     IN /\ wait' = Append(wait, [NewWait(c, TRUE, <<Top.signal>>, k)
                                   EXCEPT !.then = "pending"])
        /\ callbacks' = addAll(newCleanup(callbacks, c, k), registrations)
        /\ active' = active \cup {disposeRemover(c, k)}
                       \cup removersOf(registrations)
  /\ stack' = Rest
  /\ UNCHANGED <<sig, ctx, chain, fired>>

\* if (error): JavaScript's truthiness of an error value
truthy(v) == v # undefined /\ v # 0

\* a wait that never completes on a first emission
completeAll(state) == state.doneCount = Len(state.signalList)

\* race || doneCount === signalList.length
complete(state) == state.race \/ state.doneCount = Len(state.signalList)

\* onDone(key, signal)
StepOnDone ==
  /\ Running("onDone")
  /\ LET w == Top.wait
         s == wait[w].signalList[Top.key]
         error == sig[s].error
         counted == [wait[w] EXCEPT !.result = @ \cup {Top.key},
                                    !.doneCount = @ + 1]
     IN IF wait[w].done
        THEN /\ stack' = Rest
             /\ UNCHANGED wait
        ELSE IF truthy(error)
        THEN /\ wait' = [wait EXCEPT ![w].onDone = @ + 1,
                                     ![w].onError = @ + 1]
             /\ stack' = <<cleanupCall(wait[w].cleanup),
                           [op |-> "reject", wait |-> w, reason |-> error]>>
                           \o Rest
        ELSE IF complete(counted)
        THEN /\ wait' = [wait EXCEPT ![w] = [counted EXCEPT !.done = TRUE]]
             /\ stack' = <<cleanupCall(wait[w].cleanup),
                           [op |-> "resolve", wait |-> w]>> \o Rest
        ELSE /\ wait' = [wait EXCEPT ![w] = counted]
             /\ stack' = Rest
  /\ UNCHANGED <<sig, ctx, callbacks, active, chain, fired>>

\* return reject(error): a promise settles once
StepReject ==
  /\ Running("reject")
  /\ wait' = IF wait[Top.wait].promise = "pending"
             THEN [wait EXCEPT ![Top.wait].promise = "rejected",
                               ![Top.wait].reason = Top.reason]
             ELSE wait
  /\ stack' = Rest
  /\ UNCHANGED <<sig, ctx, callbacks, active, chain, fired>>

\* options?.onDone?.(...signalList); resolve(result)
StepResolve ==
  /\ Running("resolve")
  /\ wait' = [wait EXCEPT
                ![Top.wait].onDone = @ + 1,
                ![Top.wait].promise = IF @ = "pending" THEN "resolved" ELSE @]
  /\ stack' = Rest
  /\ UNCHANGED <<sig, ctx, callbacks, active, chain, fired>>

(***************************************************************************)
(* createSignalContext: chain                                              *)
(***************************************************************************)
\* the state of a chain: the locals of the promise executor (cleanup is 0
\* while undefined), the promise, and the calls of handleNext suspended at
\* `await entry(prevSignal)`
NewChain(c, inputEntries) ==
  [context |-> c, inputEntries |-> inputEntries, entries |-> inputEntries,
   cleanup |-> 0, promise |-> "pending", value |-> NoSignal,
   reason |-> undefined, awaiting |-> <<>>]

\* context.chain(inputEntries): the executor ends with handleNext()
StepContextChain ==
  /\ Running("context.chain")
  /\ chain' = Append(chain, NewChain(Top.context, Top.entries))
  /\ stack' = <<handleNext(Len(chain) + 1, NoSignal)>> \o Rest
  /\ UNCHANGED <<sig, ctx, callbacks, active, wait, fired>>

\* cleanup?.call()
cleanupOf(ch) ==
  IF chain[ch].cleanup = 0 THEN <<>> ELSE <<cleanupCall(chain[ch].cleanup)>>

\* handleNext: cleanup?.call(), then the rest
StepHandleNext ==
  /\ Running("handleNext")
  /\ stack' = cleanupOf(Top.chain)
                \o <<[op |-> "shift", chain |-> Top.chain, prev |-> Top.prev]>>
                \o Rest
  /\ UNCHANGED <<sig, ctx, callbacks, active, wait, chain, fired>>

\* resolve(prevSignal): a promise settles once
resolved(state, prev) ==
  IF state.promise = "pending"
  THEN [state EXCEPT !.promise = "resolved", !.value = prev]
  ELSE state

\* handleNext from `if (!entries.length)` to `entry(prevSignal)`: a step
\* function is awaited, so the rest of handleNext runs in a later task
StepShift ==
  /\ Running("shift")
  /\ LET ch == Top.chain
         entry == Head(chain[ch].entries)
         shifted == [chain[ch] EXCEPT !.entries = Tail(@)]
     IN IF chain[ch].entries = <<>>
        THEN /\ chain' = [chain EXCEPT ![ch] = resolved(@, Top.prev)]
             /\ stack' = Rest
        ELSE IF entry.type = "function"
        THEN /\ chain' = [chain EXCEPT ![ch] =
                            [shifted EXCEPT !.awaiting =
                               Append(@, [prev |-> Top.prev,
                                          signals |-> entry.returns[Top.prev]])]]
             /\ stack' = Rest
        ELSE /\ chain' = [chain EXCEPT ![ch] = shifted]
             /\ stack' = <<[op |-> "subscribe", chain |-> ch,
                            prev |-> Top.prev, signals |-> entry]>> \o Rest
  /\ UNCHANGED <<sig, ctx, callbacks, active, wait, fired>>

\* the removers made so far that a cleanup group holds
Made ==
  UNION {{callbacks[g][i] : i \in 1..Len(callbacks[g])} : g \in Cleanups}

\* forEachSignal(signals, (signal) => { cleanup.add(signal.onEmit(...));
\* cleanup.add(signal.onError(handleError)) }), from the i-th signal on
RECURSIVE chainRegistrations(_, _, _, _, _)
chainRegistrations(ch, k, signals, i, made) ==
  IF i > Len(signals) THEN <<>>
  ELSE LET s == signals[i]
           next == handleNextListener(ch, s, k, i)
           errorRemover == NewRemover(ErrorGroup(s), handleError(ch), made)
       IN << <<EmitGroup(s), next>>,
             <<CleanupGroup(k), Remover(EmitGroup(s), next, 0)>>,
             <<ErrorGroup(s), handleError(ch)>>,
             <<CleanupGroup(k), errorRemover>> >>
            \o chainRegistrations(ch, k, signals, i + 1,
                                  made \cup {errorRemover})

\* handleNext from `if (signals === "restart")` to its end
StepSubscribe ==
  /\ Running("subscribe")
  /\ LET ch == Top.chain
         k == Cardinality(Cleanups) + 1
         registrations ==
           chainRegistrations(ch, k, Top.signals.signals, 1, Made)
     IN CASE Top.signals.type = "restart" ->
               /\ chain' = [chain EXCEPT ![ch].entries = chain[ch].inputEntries]
               /\ stack' = <<handleNext(ch, NoSignal)>> \o Rest
               /\ UNCHANGED <<callbacks, active>>
          [] Top.signals.type = "nothing" ->
               /\ chain' = [chain EXCEPT ![ch] = resolved(@, Top.prev)]
               /\ stack' = Rest
               /\ UNCHANGED <<callbacks, active>>
          [] Top.signals.type = "signals" ->
               /\ chain' = [chain EXCEPT ![ch].cleanup = k]
               /\ callbacks' = addAll(newCleanup(callbacks, chain[ch].context, k),
                                      registrations)
               /\ active' = active \cup {disposeRemover(chain[ch].context, k)}
                              \cup removersOf(registrations)
               /\ stack' = Rest
  /\ UNCHANGED <<sig, ctx, wait, fired>>

\* handleError(error): cleanup?.call(), then reject(error). The error is the
\* argument of the dispatch that called the listener.
StepHandleError ==
  /\ Running("handleError")
  /\ stack' = cleanupOf(Top.chain)
                \o <<[op |-> "chain.reject", chain |-> Top.chain,
                      reason |-> Head(Rest).arg]>>
                \o Rest
  /\ UNCHANGED <<sig, ctx, callbacks, active, wait, chain, fired>>

\* reject(error): a promise settles once
StepChainReject ==
  /\ Running("chain.reject")
  /\ chain' = IF chain[Top.chain].promise = "pending"
              THEN [chain EXCEPT ![Top.chain].promise = "rejected",
                                 ![Top.chain].reason = Top.reason]
              ELSE chain
  /\ stack' = Rest
  /\ UNCHANGED <<sig, ctx, callbacks, active, wait, fired>>

(***************************************************************************)
(* Tasks: what starts when no synchronous code is running                  *)
(***************************************************************************)
\* the contexts whose effect's promise has not settled
Pending == {c \in 1..Len(ctx) : ctx[c].result = "pending"}

\* the promise returned by an effect fulfils: its then-reaction runs
Fulfil ==
  /\ stack = <<>>
  /\ \E c \in Pending, v \in Payloads :
       /\ ctx' = [ctx EXCEPT ![c].result = "fulfilled"]
       /\ stack' = <<[op |-> "then", context |-> c, value |-> v]>>
  /\ UNCHANGED <<sig, callbacks, active, wait, chain, fired>>

\* the promise returned by an effect rejects: its catch-reaction runs
Reject ==
  /\ stack = <<>>
  /\ \E c \in Pending, e \in Errors :
       /\ ctx' = [ctx EXCEPT ![c].result = "rejected"]
       /\ stack' = <<[op |-> "catch", context |-> c, value |-> e]>>
  /\ UNCHANGED <<sig, callbacks, active, wait, chain, fired>>

\* the waits made by when() whose promise has settled and whose reaction has
\* not run yet
Reacting ==
  {w \in 1..Len(wait) :
     wait[w].then = "pending" /\ wait[w].promise # "pending"}

\* the reaction of when(): .then(() => s.payload()) reads the payload when
\* it runs; a rejection passes through
WhenThen ==
  /\ stack = <<>>
  /\ \E w \in Reacting :
       wait' = [wait EXCEPT
                  ![w].then = wait[w].promise,
                  ![w].value = IF wait[w].promise = "resolved"
                               THEN sig[wait[w].signalList[1]].payload
                               ELSE wait[w].reason]
  /\ UNCHANGED <<sig, ctx, callbacks, active, chain, stack, fired>>

\* the step function a handleNext awaited has returned: the call resumes
ChainResume ==
  /\ stack = <<>>
  /\ \E ch \in 1..Len(chain) :
       /\ chain[ch].awaiting # <<>>
       /\ chain' = [chain EXCEPT ![ch].awaiting = Tail(@)]
       /\ stack' = <<[op |-> "subscribe", chain |-> ch,
                      prev |-> Head(chain[ch].awaiting).prev,
                      signals |-> Head(chain[ch].awaiting).signals]>>
  /\ UNCHANGED <<sig, ctx, callbacks, active, wait, fired>>

\* the invocations instruction i makes before it returns: its own and those
\* of the forks in the effect's body
Invocations(i) ==
  CASE i.op = "signal" ->
         1 + Cardinality({j \in 1..Len(i.effect.body) :
                            i.effect.body[j].op = "context.fork"})
    [] i.op = "context.fork" -> 1
    [] i.op = "block" -> Len(i.do)
    [] OTHER -> 0

\* user code calls the library (while the run's bound on invocations allows)
UserCall(instructions, bound) ==
  /\ stack = <<>>
  /\ \E i \in instructions :
       /\ Len(ctx) + Invocations(i) <= bound
       /\ stack' = <<i>>
  /\ UNCHANGED <<sig, ctx, callbacks, active, wait, chain, fired>>

(***************************************************************************)
(* Specification Spec: one signal, invoked, cancelled and settled          *)
(***************************************************************************)
\* the signals created so far
Signals == 1..Len(sig)

\* the effects the signal is invoked with
Effects ==
  {Value(v) : v \in Payloads} \cup {Throw(e) : e \in Errors}
    \cup {ReturnFalse, Async, AsyncCancellable}

\* a loading listener that invokes the signal again is registered, or none
Init ==
  /\ sig = <<NewSignal(undefined, NoContext)>>
  /\ ctx = <<>>
  /\ wait = <<>>
  /\ chain = <<>>
  /\ \E l \in {<<>>, <<listener(invoke(1, Value(2), FALSE))>>} :
       callbacks = [SignalGroups(1) EXCEPT ![LoadingGroup(1)] = l]
  /\ active = {}
  /\ stack = <<>>
  /\ fired = <<>>

\* the calls user code makes: invocations, signal.cancel(), and cancel() by
\* an effect that is still running
Calls ==
  {invoke(s, e, k) : s \in Signals, e \in Effects, k \in BOOLEAN}
    \cup {signalCancel(s) : s \in Signals}
    \cup {contextCancel(c) : c \in Pending}

Next ==
  \/ UserCall(Calls, MaxContexts)
  \/ Fulfil
  \/ Reject
  \/ StepCall
  \/ StepForEach
  \/ StepListener
  \/ StepSignal
  \/ StepResult
  \/ StepThen
  \/ StepCatch
  \/ StepSignalCancel
  \/ StepSignalCancelled
  \/ StepContextCancel
  \/ StepContextDispose

Spec == Init /\ [][Next]_vars

(***************************************************************************)
(* Claims about Spec                                                       *)
(***************************************************************************)
\* a settlement handler (then or catch) of context c is about to run
Settling(c) ==
  /\ Running("then") \/ Running("catch")
  /\ Top.context = c

\* the signal of c was invoked again after the invocation that created c
InvokedAgain(c) ==
  \E d \in (c + 1)..Len(ctx) : ctx[d].signal = ctx[c].signal

\* the settlement handler on top returns without a state change and without
\* calling a listener group
Ignored == sig' = sig /\ callbacks' = callbacks /\ stack' = Rest

\* C1: when a signal was invoked again before the asynchronous result of an
\* earlier invocation settled, the settlement of the earlier one changes
\* neither payload() nor error() and calls no listener group.
C1_StaleSettlementIgnored ==
  [][\A c \in 1..Len(ctx) : Settling(c) /\ InvokedAgain(c) => Ignored]_vars

\* the result of a superseded invocation has settled and its handler has run
C1_Witness ==
  /\ stack = <<>>
  /\ \E c \in 1..Len(ctx) :
       /\ ctx[c].result \in {"fulfilled", "rejected"}
       /\ InvokedAgain(c)
       /\ sig[ctx[c].signal].payload = 2

\* C2: once cancel() was called on the context of a pending invocation, the
\* settlement of its result changes neither payload() nor error() and calls
\* neither the emit nor the error group.
C2_CancelledSettlementIgnored ==
  [][\A c \in 1..Len(ctx) : Settling(c) /\ ctx[c].cancelled => Ignored]_vars

\* C3: the completion of an invocation made with noDispose = true (return,
\* throw, fulfilment, rejection) does not call context.dispose().
C3_KeptAliveNotDisposed ==
  [][\A c \in 1..Len(ctx) :
       /\ Running("result") \/ Running("then") \/ Running("catch")
       /\ Top.context = c
       /\ ctx[c].noDispose
       => \/ stack' = <<>>
          \/ Head(stack') # contextDispose(c)]_vars

\* the effect of context d completes in this step: it returned a value or
\* threw, or the promise it returned settled
Completes(d) ==
  /\ stack # <<>>
  /\ Top.op \in {"result", "then", "catch"}
  /\ Top.context = d
  /\ Top.op = "result" => Top.returns \in {"value", "throw"}

\* C18: when the effect of an invocation made without keepContextAlive
\* completes (synchronous return or throw, or settlement of its promise,
\* superseded or not), context.dispose() is the next thing to run.
C18_CompletionDisposes ==
  [][\A d \in 1..Len(ctx) :
       Completes(d) /\ ~ctx[d].noDispose
       => stack' # <<>> /\ Head(stack') = contextDispose(d)]_vars

(***************************************************************************)
(* Specification SpecFork: a signal whose effect forks child signals       *)
(***************************************************************************)
\* what a forked effect does
ChildEffects == {Value(1), Throw(1), ReturnFalse, Async, AsyncCancellable}

InitFork ==
  /\ sig = <<NewSignal(undefined, NoContext)>>
  /\ ctx = <<>>
  /\ wait = <<>>
  /\ chain = <<>>
  /\ callbacks = SignalGroups(1)
  /\ active = {}
  /\ stack = <<>>
  /\ fired = <<>>

\* the contexts of the parent signal
ParentContexts == {c \in 1..Len(ctx) : ctx[c].signal = 1}

\* the calls user code makes: the parent is invoked (as spawn does, or with
\* the default noDispose) and cancelled; the parent's effect cancels or
\* disposes its context, or forks another child while it is running; a child
\* is invoked again. The effects of the parent fork one child each before
\* they return
CallsFork ==
  LET ParentEffects ==
        {Effect(<<contextFork(NoContext, child)>>, returns, 1, FALSE) :
           child \in ChildEffects, returns \in {"value", "promise"}}
  IN {invoke(1, e, k) : e \in ParentEffects, k \in BOOLEAN}
       \cup {invoke(n, e, FALSE) : n \in Signals \ {1}, e \in ChildEffects}
       \cup {signalCancel(1)}
       \cup {contextCancel(c) : c \in ParentContexts}
       \cup {contextDispose(c) : c \in ParentContexts}
       \cup {contextFork(c, e) : c \in ParentContexts \cap Pending,
                                 e \in ChildEffects}

NextFork ==
  \/ UserCall(CallsFork, MaxForkContexts)
  \/ Fulfil
  \/ Reject
  \/ StepCall
  \/ StepForEach
  \/ StepSignal
  \/ StepResult
  \/ StepThen
  \/ StepCatch
  \/ StepSignalCancel
  \/ StepSignalCancelled
  \/ StepContextCancel
  \/ StepContextDispose
  \/ StepContextFork

SpecFork == InitFork /\ [][NextFork]_vars

(***************************************************************************)
(* Claims about SpecFork                                                   *)
(***************************************************************************)
\* the signals forked through context c
Children(c) == {n \in Signals : sig[n].forkedBy = c}

\* the contexts of the invocations of signal n, and the first and last
ContextsOf(n) == {d \in 1..Len(ctx) : ctx[d].signal = n}
FirstContext(n) == CHOOSE d \in ContextsOf(n) : \A e \in ContextsOf(n) : d <= e
LastContext(n) == CHOOSE d \in ContextsOf(n) : \A e \in ContextsOf(n) : e <= d

\* the asynchronous work of context d has not settled
Unsettled(d) == ctx[d].result \in {"pending", "stopped"}

\* every dispose listener of c has run (disposal by dispose(), by cancel() or
\* by the completion of the invocation)
Disposed(c) ==
  /\ Running("forEach")
  /\ Top.group = DisposeGroup(c)
  /\ Top.list = <<>>

\* C8: when the dispose listeners of a context have run, every child it
\* forked whose invocation is still unsettled is cancelled (cancelled() is
\* true, error() is undefined, no owning context), and the settlement of a
\* cancelled child changes no state and calls no listener group.
C8_ForkCascade ==
  /\ [](\A c \in 1..Len(ctx) : \A n \in Children(c) :
          Disposed(c) /\ ContextsOf(n) # {} /\ Unsettled(LastContext(n))
          => /\ sig[n].cancelled
             /\ sig[n].error = undefined
             /\ sig[n].lastContext = NoContext)
  /\ [][\A d \in 1..Len(ctx) :
          /\ Settling(d)
          /\ sig[ctx[d].signal].forkedBy # NoContext
          /\ sig[ctx[d].signal].cancelled
          => Ignored]_vars

\* a child was cancelled by its parent's disposal and its work fulfilled later
C8_Witness ==
  /\ stack = <<>>
  /\ \E n \in Signals :
       /\ sig[n].forkedBy # NoContext
       /\ sig[n].cancelled
       /\ sig[n].payload = undefined
       /\ ContextsOf(n) # {}
       /\ ctx[LastContext(n)].result = "fulfilled"

\* the completion of context d: its effect returned a value or threw, or its
\* result settled while d still owned the signal
Completing(d) ==
  /\ stack # <<>>
  /\ Top.op \in {"result", "then", "catch"}
  /\ Top.context = d
  /\ Top.op = "result" => Top.returns \in {"value", "throw"}
  /\ Top.op \in {"then", "catch"} => sig[ctx[d].signal].lastContext = d

\* d is the context of the invocation fork() made of a child signal
ForkContext(d) ==
  /\ sig[ctx[d].signal].forkedBy # NoContext
  /\ d = FirstContext(ctx[d].signal)

Dispatching(g) ==
  {i \in 1..Len(stack) : stack[i].op \in {"call", "forEach"} /\ stack[i].group = g}

\* C24: cancelled() of a context is false until cancel() is called on it and
\* true ever after; the first cancel() dispatches the cancel listeners and,
\* when that dispatch is over, the dispose listeners; a later cancel()
\* returns at once: it dispatches nothing and changes no signal, context or
\* group.
C24_CancelOnceInOrder ==
  /\ [](\A c \in 1..Len(ctx) : \A i \in Dispatching(CancelGroup(c)) :
          /\ ctx[c].cancelled
          /\ i < Len(stack)
          /\ stack[i + 1] = call(DisposeGroup(c), undefined))
  /\ [][/\ \A c \in 1..Len(ctx) :
            /\ ctx[c].cancelled => ctx'[c].cancelled
            /\ ~ctx[c].cancelled /\ ctx'[c].cancelled
               => /\ Running("context.cancel")
                  /\ Top.context = c
                  /\ Dispatching(CancelGroup(c))' = {1}
                  /\ Dispatching(DisposeGroup(c))' = {2}
        /\ \A d \in (Len(ctx) + 1)..Len(ctx') : ~ctx'[d].cancelled
        /\ Running("context.cancel") /\ ctx[Top.context].cancelled
           => /\ stack' = Rest
              /\ <<sig, ctx, callbacks, active>>' = <<sig, ctx, callbacks, active>>
     ]_vars

\* cancel() is called again on a cancelled context that has a dispose
\* listener
C24_Witness ==
  /\ Running("context.cancel")
  /\ ctx[Top.context].cancelled
  /\ callbacks[DisposeGroup(Top.context)] # <<>>

(***************************************************************************)
(* Specification SpecDispose: SpecFork with a third invocation             *)
(***************************************************************************)
NextDispose ==
  \/ UserCall(CallsFork, MaxDisposeContexts)
  \/ Fulfil
  \/ Reject
  \/ StepCall
  \/ StepForEach
  \/ StepSignal
  \/ StepResult
  \/ StepThen
  \/ StepCatch
  \/ StepSignalCancel
  \/ StepSignalCancelled
  \/ StepContextCancel
  \/ StepContextDispose
  \/ StepContextFork

SpecDispose == InitFork /\ [][NextDispose]_vars

(***************************************************************************)
(* Claims about SpecDispose                                                *)
(***************************************************************************)
\* the signals whose cancel() is a dispose listener of context c
Torn(c) ==
  {callbacks[DisposeGroup(c)][i].s : i \in 1..Len(callbacks[DisposeGroup(c)])}

\* C23: when dispose() is called on a context that cancel() has disposed
\* before, no dispose listener has anything left to act on: every child
\* forked through the context is without an owning context, so that its
\* cancel() returns at once, also when the child was invoked again.
C23_DisposeAgainDoesNothing ==
  \A c \in 1..Len(ctx) :
    /\ Running("context.dispose")
    /\ Top.context = c
    /\ ctx[c].cancelled
    => \A n \in Torn(c) : sig[n].lastContext = NoContext

(***************************************************************************)
(* Specification SpecOn: an effect subscribes to a signal with context.on  *)
(***************************************************************************)
\* signal 1 is invoked with an effect that subscribes to signal 2
InitOn ==
  /\ sig = <<NewSignal(undefined, NoContext), NewSignal(undefined, NoContext)>>
  /\ ctx = <<>>
  /\ wait = <<>>
  /\ chain = <<>>
  /\ callbacks = SignalGroups(1) @@ SignalGroups(2)
  /\ active = {}
  /\ stack = <<>>
  /\ fired = <<>>

\* the effect calls context.on(signal2, onEmit) and returns a value or a
\* promise
SubscribingEffects ==
  {Effect(<<contextOn(NoContext, <<2>>)>>, returns, 1, FALSE) :
     returns \in {"value", "promise"}}

\* the calls user code makes: signal 1 is invoked (as spawn does, or with the
\* default noDispose); signal 2 emits; the unsubscribe function context.on
\* returned is called; the context is cancelled or disposed
CallsOn ==
  {invoke(1, e, k) : e \in SubscribingEffects, k \in BOOLEAN}
    \cup {invoke(2, Value(1), FALSE)}
    \cup {cleanupCall(k) : k \in 1..Cardinality(Cleanups)}
    \cup {contextCancel(c) : c \in 1..Len(ctx)}
    \cup {contextDispose(c) : c \in 1..Len(ctx)}

NextOn ==
  \/ UserCall(CallsOn, MaxOnContexts)
  \/ Fulfil
  \/ StepCall
  \/ StepForEach
  \/ StepRemove
  \/ StepSignal
  \/ StepResult
  \/ StepThen
  \/ StepContextCancel
  \/ StepContextDispose
  \/ StepContextOn
  \/ StepOnEmit

SpecOn == InitOn /\ [][NextOn]_vars

(***************************************************************************)
(* Claims about SpecOn                                                     *)
(***************************************************************************)
\* cleanup group k has been called, by the function the combinator returned
\* or by the dispose listeners of its context: every remover it holds is spent
Released(k) ==
  \A i \in 1..Len(callbacks[CleanupGroup(k)]) :
    callbacks[CleanupGroup(k)][i] \notin active

\* C7: once the unsubscribe function returned by context.on has been called,
\* or the owning context has been disposed or cancelled, an emission of a
\* subscribed signal no longer invokes the callback.
C7_UnsubscribedNotInvoked ==
  Running("onEmit") => ~Released(Top.subscription)

(***************************************************************************)
(* Specification SpecWait: an effect waits for two signals (all or race)   *)
(***************************************************************************)
\* signal 1 is spawned with an effect that waits for a (signal 2) and b
\* (signal 3); a listener on b's emit group that makes a fail is registered
\* before any wait, or none
InitWait ==
  /\ sig = [s \in 1..3 |-> NewSignal(undefined, NoContext)]
  /\ ctx = <<>>
  /\ wait = <<>>
  /\ chain = <<>>
  /\ \E l \in {<<>>, <<listener(invoke(2, Throw(1), FALSE))>>} :
       callbacks = [SignalGroups(1) @@ SignalGroups(2) @@ SignalGroups(3)
                      EXCEPT ![EmitGroup(3)] = l]
  /\ active = {}
  /\ stack = <<>>
  /\ fired = <<>>

\* the effect awaits context.all({a, b}) or context.race({a, b})
WaitingEffects ==
  {Effect(<<contextWait(NoContext, race, <<2, 3>>)>>, "promise", undefined,
          FALSE) : race \in BOOLEAN}

\* the calls user code makes: spawn of the waiting effect; a and b emit or
\* fail
CallsWait ==
  {invoke(1, e, TRUE) : e \in WaitingEffects}
    \cup {invoke(s, e, FALSE) : s \in {2, 3}, e \in {Value(1), Throw(1)}}

NextWait ==
  \/ UserCall(CallsWait, MaxWaitContexts)
  \/ StepCall
  \/ StepForEach
  \/ StepListener
  \/ StepRemove
  \/ StepSignal
  \/ StepResult
  \/ StepContextDispose
  \/ StepContextWait
  \/ StepOnDone
  \/ StepReject
  \/ StepResolve

SpecWait == InitWait /\ [][NextWait]_vars

(***************************************************************************)
(* Claims about SpecWait                                                   *)
(***************************************************************************)
Waits == 1..Len(wait)
Keys(w) == 1..Len(wait[w].signalList)

\* C4: the promise of all() is resolved only when every entry of the map has
\* emitted since the wait started (result holds the key of every entry).
C4_AllResolvesAfterEveryEntry ==
  \A w \in Waits :
    ~wait[w].race /\ wait[w].promise = "resolved"
    => wait[w].result = Keys(w)

\* C5: once a participant's error has rejected the promise of a wait, no
\* emission or error of another participant invokes options.onDone or
\* options.onError again.
C5_RejectedWaitIsSilent ==
  [][\A w \in Waits :
       wait[w].promise = "rejected"
       => /\ wait'[w].onDone = wait[w].onDone
          /\ wait'[w].onError = wait[w].onError]_vars

\* the listeners wait w still has in the emit and error groups of signals
ListenersOf(w) ==
  {<<g, i>> \in UNION {{g} \X (1..Len(callbacks[g])) :
                         g \in {h \in DOMAIN callbacks :
                                  h[1] \in {"onEmit", "onError"}}} :
     /\ callbacks[g][i].op = "onDone"
     /\ callbacks[g][i].wait = w}

\* C6: a race whose promise is resolved holds exactly one key, the winner's,
\* and has no listener left on any participant; from then on its result
\* never gains a key.
C6_RaceResolvesWithWinnerOnly ==
  /\ [](\A w \in Waits :
          wait[w].race /\ wait[w].promise = "resolved"
          => /\ Cardinality(wait[w].result) = 1
             /\ ListenersOf(w) = {})
  /\ [][\A w \in Waits :
          wait[w].race /\ wait[w].promise = "resolved"
          => wait'[w].result = wait[w].result]_vars

\* a race was won by b, and a emitted afterwards
C6_Witness ==
  /\ stack = <<>>
  /\ \E w \in Waits :
       /\ wait[w].race
       /\ wait[w].promise = "resolved"
       /\ wait[w].result = {2}
       /\ \E d \in 1..Len(ctx), e \in 1..Len(ctx) :
            /\ wait[w].context < d
            /\ d < e
            /\ ctx[d].signal = 3
            /\ ctx[e].signal = 2
            /\ sig[2].payload = 1
            /\ sig[2].error = undefined

(***************************************************************************)
(* Specification SpecChain: an effect awaits a chain over s1 and s2        *)
(***************************************************************************)
\* what a step function can be called with: nothing, or a signal
Prevs == 0..3

\* (prev) => prev === s1 ? s2 : null
thenS2 == [prev \in Prevs |-> IF prev = 2 THEN Wait(<<3>>) ELSE Nothing]

\* signal 1 is spawned with the chaining effect; s1 is signal 2 and s2 is
\* signal 3
InitChain ==
  /\ sig = [s \in 1..3 |-> NewSignal(undefined, NoContext)]
  /\ ctx = <<>>
  /\ wait = <<>>
  /\ chain = <<>>
  /\ callbacks = SignalGroups(1) @@ SignalGroups(2) @@ SignalGroups(3)
  /\ active = {}
  /\ stack = <<>>
  /\ fired = <<>>

\* the calls user code makes: spawn of an effect that awaits
\* context.chain(entries), for the chains [s1, step] and [[s1, s1], step],
\* where step is thenS2 or (prev) => prev === s1 ? "restart" : null; s1 and
\* s2 emit or fail
CallsChain ==
  LET thenRestart ==
        [prev \in Prevs |-> IF prev = 2 THEN Restart ELSE Nothing]
      Chains ==
        {<<Wait(signals), Step(returns)>> :
           signals \in {<<2>>, <<2, 2>>}, returns \in {thenS2, thenRestart}}
      ChainingEffects ==
        {Effect(<<contextChain(NoContext, entries)>>, "promise", undefined,
                FALSE) : entries \in Chains}
  IN {invoke(1, e, TRUE) : e \in ChainingEffects}
       \cup {invoke(s, e, FALSE) : s \in {2, 3}, e \in {Value(1), Throw(1)}}

NextChain ==
  \/ UserCall(CallsChain, MaxChainContexts)
  \/ ChainResume
  \/ StepCall
  \/ StepForEach
  \/ StepRemove
  \/ StepSignal
  \/ StepResult
  \/ StepContextDispose
  \/ StepContextChain
  \/ StepHandleNext
  \/ StepShift
  \/ StepSubscribe
  \/ StepHandleError
  \/ StepChainReject

SpecChain == InitChain /\ [][NextChain]_vars

(***************************************************************************)
(* Claims about SpecChain                                                  *)
(***************************************************************************)
ChainsMade == 1..Len(chain)

\* the listeners chain ch has in the emit and error groups of signals
ChainListeners(ch) ==
  {<<g, i>> \in UNION {{g} \X (1..Len(callbacks[g])) :
                         g \in {h \in DOMAIN callbacks :
                                  h[1] \in {"onEmit", "onError"}}} :
     /\ callbacks[g][i].op \in {"handleNext", "handleError"}
     /\ callbacks[g][i].chain = ch}

\* the item handleNext shifted last
Shifted(ch) ==
  chain[ch].inputEntries[Len(chain[ch].inputEntries) - Len(chain[ch].entries)]

\* the promise of chain ch is resolved in this step
Resolving(ch) ==
  chain[ch].promise = "pending" /\ chain'[ch].promise = "resolved"

\* C10: a chain resolves once, and only when its item list is exhausted or a
\* step function returned a falsy result; once resolved it registers no
\* further listener. chain([s1, step]), where step returns s2 for s1, is
\* resolved only with s2.
C10_ChainResolvesOnceAndStops ==
  /\ [](\A ch \in ChainsMade :
          /\ chain[ch].inputEntries = <<Wait(<<2>>), Step(thenS2)>>
          /\ chain[ch].promise = "resolved"
          => chain[ch].value = 3)
  /\ [][\A ch \in DOMAIN chain :
          /\ Resolving(ch)
             => \/ chain'[ch].entries = <<>>
                \/ /\ Shifted(ch)'.type = "function"
                   /\ Shifted(ch)'.returns[chain'[ch].value] = Nothing
          /\ chain[ch].promise = "resolved"
             => /\ chain'[ch].promise = "resolved"
                /\ chain'[ch].value = chain[ch].value
                /\ Cardinality(ChainListeners(ch)')
                     <= Cardinality(ChainListeners(ch))]_vars

(***************************************************************************)
(* Specification SpecChainList: chains of three items over s1 and s2       *)
(***************************************************************************)
\* () => item: a step function that returns the same item whatever emitted
always(item) == [prev \in Prevs |-> item]

\* the calls user code makes: spawn of an effect that awaits one of the
\* chains [list, s2, s1] and [list, () => s2, () => s1], where list is s1
\* or [s1, s1]; s1 and s2 emit or fail
CallsChainList ==
  LET Lists == {<<2>>, <<2, 2>>}
      ListChains ==
        {<<Wait(signals), Wait(<<3>>), Wait(<<2>>)>> : signals \in Lists}
          \cup {<<Wait(signals), Step(always(Wait(<<3>>))),
                  Step(always(Wait(<<2>>)))>> : signals \in Lists}
  IN {invoke(1, Effect(<<contextChain(NoContext, entries)>>, "promise",
                       undefined, FALSE), TRUE) : entries \in ListChains}
       \cup {invoke(s, e, FALSE) : s \in {2, 3}, e \in {Value(1), Throw(1)}}

NextChainList ==
  \/ UserCall(CallsChainList, MaxListContexts)
  \/ ChainResume
  \/ StepCall
  \/ StepForEach
  \/ StepRemove
  \/ StepSignal
  \/ StepResult
  \/ StepContextDispose
  \/ StepContextChain
  \/ StepHandleNext
  \/ StepShift
  \/ StepSubscribe
  \/ StepHandleError
  \/ StepChainReject

SpecChainList == InitChain /\ [][NextChainList]_vars

(***************************************************************************)
(* Claims about SpecChainList                                              *)
(***************************************************************************)
\* the emit listeners chain ch has on signals
Advancers(ch) ==
  {callbacks[x[1]][x[2]] : x \in {y \in ChainListeners(ch) :
                                    callbacks[y[1]][y[2]].op = "handleNext"}}

\* the number of items chain ch has taken from its list
Consumed(ch) == Len(chain[ch].inputEntries) - Len(chain[ch].entries)

\* the number of emissions of s1 and s2 dispatched so far
Emissions ==
  Cardinality({i \in 1..Len(fired) :
                 /\ fired[i].type = "call"
                 /\ fired[i].group \in {EmitGroup(2), EmitGroup(3)}})

\* C19: the listeners a chain has on signals all belong to one step (one
\* cleanup group), and the chain has taken one item at its start and at
\* most one more for each emission dispatched, also when an item is a list
\* that names a signal twice.
C19_ChainOneStepAtATime ==
  \A ch \in ChainsMade :
    /\ \A x \in Advancers(ch), y \in Advancers(ch) : x.cleanup = y.cleanup
    /\ Consumed(ch) <= 1 + Emissions

(***************************************************************************)
(* Specification SpecChainCancel: the signal that runs a chain is cancelled*)
(***************************************************************************)
\* the calls user code makes: spawn of an effect that awaits one of the
\* chains [s1, s2], [s1, () => s2] and [() => s1, s2]; s1 and s2 emit or
\* fail; signal 1 is cancelled
CallsChainCancel ==
  LET CancelledChains ==
        {<<Wait(<<2>>), Wait(<<3>>)>>,
         <<Wait(<<2>>), Step(always(Wait(<<3>>)))>>,
         <<Step(always(Wait(<<2>>))), Wait(<<3>>)>>}
  IN {invoke(1, Effect(<<contextChain(NoContext, entries)>>, "promise",
                       undefined, FALSE), TRUE) : entries \in CancelledChains}
       \cup {invoke(s, e, FALSE) : s \in {2, 3}, e \in {Value(1), Throw(1)}}
       \cup {signalCancel(1)}

NextChainCancel ==
  \/ UserCall(CallsChainCancel, MaxChainCancelContexts)
  \/ ChainResume
  \/ StepCall
  \/ StepForEach
  \/ StepRemove
  \/ StepSignal
  \/ StepResult
  \/ StepSignalCancel
  \/ StepSignalCancelled
  \/ StepContextCancel
  \/ StepContextDispose
  \/ StepContextChain
  \/ StepHandleNext
  \/ StepShift
  \/ StepSubscribe
  \/ StepHandleError
  \/ StepChainReject

SpecChainCancel == InitChain /\ [][NextChainCancel]_vars

(***************************************************************************)
(* Claims about SpecChainCancel                                            *)
(***************************************************************************)
\* the chains whose context has been cancelled
Stopped == {ch \in ChainsMade : ctx[chain[ch].context].cancelled}

\* C20: once the context that started a chain has been cancelled, the chain
\* holds no listener on any signal when no code is running, and the number
\* of listeners it holds never grows again, also when a step function was
\* being awaited at the time.
C20_CancelledChainHoldsNoListener ==
  /\ [](stack = <<>> => \A ch \in Stopped : ChainListeners(ch) = {})
  /\ [][\A ch \in Stopped :
          Cardinality(ChainListeners(ch)') <= Cardinality(ChainListeners(ch))]_vars

(***************************************************************************)
(* Specification SpecChainError: a listener of s1 makes s1 fail            *)
(***************************************************************************)
\* the signals of SpecChain; s1.onEmit(() => s1(() => { throw 1 })) is
\* registered before the chain is made, or not at all
InitChainError ==
  /\ sig = [s \in 1..3 |-> NewSignal(undefined, NoContext)]
  /\ ctx = <<>>
  /\ wait = <<>>
  /\ chain = <<>>
  /\ \E l \in {<<>>, <<listener(invoke(2, Throw(1), FALSE))>>} :
       callbacks = [SignalGroups(1) @@ SignalGroups(2) @@ SignalGroups(3)
                      EXCEPT ![EmitGroup(2)] = l]
  /\ active = {}
  /\ stack = <<>>
  /\ fired = <<>>

\* the calls user code makes: spawn of an effect that awaits
\* chain([s1, step]) or chain([[s1, s2], s2]); s1 and s2 emit or fail
NextChainError ==
  \/ UserCall({invoke(1, Effect(<<contextChain(NoContext, entries)>>,
                                "promise", undefined, FALSE), TRUE) :
                 entries \in {<<Wait(<<2>>), Step(thenS2)>>,
                              <<Wait(<<2, 3>>), Wait(<<3>>)>>}}
                \cup {invoke(s, e, FALSE) :
                        s \in {2, 3}, e \in {Value(1), Throw(1)}},
              MaxChainErrorContexts)
  \/ ChainResume
  \/ StepCall
  \/ StepForEach
  \/ StepListener
  \/ StepRemove
  \/ StepSignal
  \/ StepResult
  \/ StepContextDispose
  \/ StepContextChain
  \/ StepHandleNext
  \/ StepShift
  \/ StepSubscribe
  \/ StepHandleError
  \/ StepChainReject

SpecChainError == InitChainError /\ [][NextChainError]_vars

(***************************************************************************)
(* Claims about SpecChainError                                             *)
(***************************************************************************)
\* the chains whose promise is rejected
Failed == {ch \in ChainsMade : chain[ch].promise = "rejected"}

\* the dispatches of error groups that reached the handleError of chain ch
ErrorsSeen(ch) ==
  {i \in 1..Len(fired) :
     /\ fired[i].type = "call"
     /\ fired[i].group[1] = "onError"
     /\ \E n \in 1..Len(fired[i].registered) :
          fired[i].registered[n] = handleError(ch)}

\* C21: when the error group of a signal a chain waits on has fired, the
\* chain's promise is rejected with that error and the chain has no
\* listener left once the dispatch is over; from then on the chain takes no
\* item, awaits no step function, stays rejected with the same reason and
\* registers nothing.
C21_FailedChainIsTerminal ==
  /\ [](stack = <<>> =>
          \A ch \in ChainsMade :
            /\ ErrorsSeen(ch) # {} => ch \in Failed
            /\ ch \in Failed
               => /\ ChainListeners(ch) = {}
                  /\ \E i \in ErrorsSeen(ch) : fired[i].arg = chain[ch].reason)
  /\ [][\A ch \in Failed :
          /\ chain'[ch].promise = "rejected"
          /\ chain'[ch].reason = chain[ch].reason
          /\ chain'[ch].entries = chain[ch].entries
          /\ Len(chain'[ch].awaiting) <= Len(chain[ch].awaiting)
          /\ Cardinality(ChainListeners(ch)')
               <= Cardinality(ChainListeners(ch))]_vars

(***************************************************************************)
(* Specification SpecGroup: listeners that add and remove during dispatch  *)
(***************************************************************************)
\* up to three of the user functions a, b, c and d are registered on the
\* emit group of signal 1 at the start, each once, in some order
InitGroup ==
  /\ sig = <<NewSignal(undefined, NoContext)>>
  /\ ctx = <<>>
  /\ wait = <<>>
  /\ chain = <<>>
  /\ \E l \in {m \in UNION {[1..n -> {"a", "b", "c", "d"}] : n \in 1..3} :
                 \A i \in 1..Len(m), j \in 1..Len(m) : m[i] = m[j] => i = j} :
       /\ callbacks = [SignalGroups(1) EXCEPT
                         ![EmitGroup(1)] = [i \in 1..Len(l) |-> Fn(l[i])]]
       /\ active = {Remover(EmitGroup(1), Fn(l[i]), 0) : i \in 1..Len(l)}
  /\ stack = <<>>
  /\ fired = <<>>

\* the calls user code makes: the signal emits
CallsGroup == {invoke(1, Value(1), FALSE)}

NextGroup ==
  \/ UserCall(CallsGroup, MaxGroupContexts)
  \/ StepCall
  \/ StepForEach
  \/ StepFn
  \/ StepAdd
  \/ StepRemove
  \/ StepSignal
  \/ StepResult
  \/ StepContextDispose

SpecGroup == InitGroup /\ [][NextGroup]_vars

(***************************************************************************)
(* Claims about SpecGroup                                                  *)
(***************************************************************************)
\* the positions of the history that record a dispatch
Dispatches == {i \in 1..Len(fired) : fired[i].type = "call"}

\* the end of the pass that dispatch i started: the position before the next
\* dispatch, or the end of the history
PassEnd(i) ==
  IF \E j \in Dispatches : j > i
  THEN (CHOOSE j \in Dispatches : j > i /\ \A k \in Dispatches : k > i => j <= k)
         - 1
  ELSE Len(fired)

\* the user functions run in the pass of dispatch i, in order
Pass(i) == [n \in 1..(PassEnd(i) - i) |-> Fn(fired[i + n].id)]

\* the pass of dispatch i is over
PassOver(i) == PassEnd(i) < Len(fired) \/ stack = <<>>

\* p is an initial segment of l
Prefix(p, l) == Len(p) <= Len(l) /\ \A n \in 1..Len(p) : p[n] = l[n]

\* C11: a dispatch runs exactly the callbacks registered when call() started,
\* each once and in registration order, whatever the callbacks add to or
\* remove from the group meanwhile.
C11_DispatchIsSnapshotInOrder ==
  \A i \in Dispatches :
    /\ Prefix(Pass(i), fired[i].registered)
    /\ PassOver(i) => Pass(i) = fired[i].registered

\* a pass over the snapshot c, a, d has ended: c removed a before a's turn
\* and d added e, yet a ran and e did not
C11_Witness ==
  /\ stack = <<>>
  /\ \E i \in Dispatches :
       /\ fired[i].registered = <<Fn("c"), Fn("a"), Fn("d")>>
       /\ Pass(i) = <<Fn("c"), Fn("a"), Fn("d")>>
       /\ PassEnd(i) = Len(fired)
       /\ callbacks[EmitGroup(1)] = <<Fn("c"), Fn("d"), Fn("e")>>

(***************************************************************************)
(* Specification SpecPlain: a signal invoked with plain values             *)
(***************************************************************************)
\* signal({ payload: 0 }) with the error listener x and the emit listeners
\* registered at the start: a and e, each at most once
InitPlain ==
  /\ sig = <<NewSignal(0, NoContext)>>
  /\ ctx = <<>>
  /\ wait = <<>>
  /\ chain = <<>>
  /\ \E l \in {m \in UNION {[1..n -> {"a", "e"}] : n \in 0..2} :
                 \A i \in 1..Len(m), j \in 1..Len(m) : m[i] = m[j] => i = j} :
       callbacks = [SignalGroups(1) EXCEPT
                      ![EmitGroup(1)] = [i \in 1..Len(l) |-> Fn(l[i])],
                      ![ErrorGroup(1)] = <<Fn("x")>>]
  /\ active = {}
  /\ stack = <<>>
  /\ fired = <<>>

\* the calls user code makes: the n-th invocation passes the plain value n
\* or the plain value false
CallsPlain ==
  {invoke(1, plain(v), FALSE) : v \in {Len(ctx) + 1, falseValue}}

NextPlain ==
  \/ UserCall(CallsPlain, MaxPlainContexts)
  \/ StepCall
  \/ StepForEach
  \/ StepFn
  \/ StepSignal
  \/ StepResult
  \/ StepContextDispose

SpecPlain == InitPlain /\ [][NextPlain]_vars

(***************************************************************************)
(* Claims about SpecPlain                                                  *)
(***************************************************************************)
\* the number of dispatches of a group the history records
Fired(group) ==
  Cardinality({i \in Dispatches : fired[i].group = group})

\* the number of times the user function id has run
Ran(id) ==
  Cardinality({i \in 1..Len(fired) :
                 fired[i].type = "fn" /\ fired[i].id = id})

\* C12: after n invocations with plain values the payload is the last value
\* passed (n, or false), the error is undefined, the emit group has fired n
\* times and every emit listener has run n times.
C12_PlainValuesAreStored ==
  stack = <<>>
  => /\ Len(ctx) > 0 => sig[1].payload \in {Len(ctx), falseValue}
     /\ sig[1].error = undefined
     /\ Fired(EmitGroup(1)) = Len(ctx)
     /\ \A i \in 1..Len(callbacks[EmitGroup(1)]) :
          Ran(callbacks[EmitGroup(1)][i].id) = Len(ctx)

(***************************************************************************)
(* Specification SpecThrow: effect functions that throw                    *)
(***************************************************************************)
\* the value the effect function of the n-th invocation throws
errorOf(n) == 100 + n

\* the calls user code makes: the n-th invocation passes the plain value n,
\* or an effect function that throws errorOf(n)
CallsThrow ==
  {invoke(1, e, FALSE) :
     e \in {plain(Len(ctx) + 1), Throw(errorOf(Len(ctx) + 1))}}

NextThrow ==
  \/ UserCall(CallsThrow, MaxThrowContexts)
  \/ StepCall
  \/ StepForEach
  \/ StepFn
  \/ StepSignal
  \/ StepResult
  \/ StepContextDispose

SpecThrow == InitPlain /\ [][NextThrow]_vars

(***************************************************************************)
(* Claims about SpecThrow                                                  *)
(***************************************************************************)
\* the dispatches the history records, in order
IsDispatch(entry) == entry.type = "call"
Dispatched == SelectSeq(fired, IsDispatch)

\* the invocations so far that emitted
Emitted == {n \in 1..Len(Dispatched) : Dispatched[n].group = EmitGroup(1)}

\* the greatest number of a set of naturals, 0 when it is empty
Greatest(S) == IF S = {} THEN 0 ELSE CHOOSE n \in S : \A m \in S : m <= n

\* C13: every invocation fires one group; an invocation whose effect function
\* throws e fires the error group with e, sets error() to e and leaves
\* payload() as it was (the value of the last invocation that emitted); the
\* error listener runs once for each.
C13_ThrowSetsErrorOnly ==
  stack = <<>>
  => /\ Len(Dispatched) = Len(ctx)
     /\ \A n \in 1..Len(Dispatched) :
          Dispatched[n].group = ErrorGroup(1)
          => Dispatched[n].arg = errorOf(n)
     /\ sig[1].error = IF Len(ctx) > 0 /\ Len(ctx) \notin Emitted
                       THEN errorOf(Len(ctx)) ELSE undefined
     /\ sig[1].payload = Greatest(Emitted)
     /\ Ran("x") = Fired(ErrorGroup(1))

\* the first invocation emitted 1 and the second threw: the error is set,
\* the payload is still 1 and the error listener has run once
C13_Witness ==
  /\ stack = <<>>
  /\ Len(ctx) = 2
  /\ Emitted = {1}
  /\ sig[1].error = errorOf(2)
  /\ sig[1].payload = 1
  /\ Ran("x") = 1

(***************************************************************************)
(* Specification SpecCancel: signal.cancel() with a cancellation callback  *)
(***************************************************************************)
\* signal({ onCancel }) with an emit listener and an error listener
InitCancel ==
  /\ sig = <<[NewSignal(undefined, NoContext) EXCEPT
                !.onCancel = <<Fn("onCancel")>>]>>
  /\ ctx = <<>>
  /\ wait = <<>>
  /\ chain = <<>>
  /\ callbacks = [SignalGroups(1) EXCEPT ![EmitGroup(1)] = <<Fn("a")>>,
                                         ![ErrorGroup(1)] = <<Fn("x")>>]
  /\ active = {}
  /\ stack = <<>>
  /\ fired = <<>>

\* the calls user code makes: invocations (asynchronous, with or without a
\* cancel listener on their context; plain value; throwing) and
\* signal.cancel()
CallsCancel ==
  LET CancellableEffects ==
        {Effect(body, "promise", undefined, cancellable) :
           body \in {<<>>, <<contextOnCancel(NoContext, Fn("k"))>>},
           cancellable \in BOOLEAN}
  IN {invoke(1, e, FALSE) :
        e \in CancellableEffects \cup {plain(1), Throw(errorOf(0))}}
       \cup {signalCancel(1)}

NextCancel ==
  \/ UserCall(CallsCancel, MaxCancelContexts)
  \/ Fulfil
  \/ Reject
  \/ StepCall
  \/ StepForEach
  \/ StepFn
  \/ StepSignal
  \/ StepResult
  \/ StepThen
  \/ StepCatch
  \/ StepSignalCancel
  \/ StepSignalCancelled
  \/ StepContextCancel
  \/ StepContextOnCancel
  \/ StepContextDispose

SpecCancel == InitCancel /\ [][NextCancel]_vars

(***************************************************************************)
(* Claims about SpecCancel                                                 *)
(***************************************************************************)
\* the contexts cancelled so far
Cancelled == {c \in 1..Len(ctx) : ctx[c].cancelled}

InitReset ==
  /\ sig = <<NewSignal(0, NoContext)>>
  /\ ctx = <<>>
  /\ wait = <<>>
  /\ chain = <<>>
  /\ callbacks = [SignalGroups(1) EXCEPT ![EmitGroup(1)] = <<Fn("a")>>,
                                         ![ErrorGroup(1)] = <<Fn("x")>>]
  /\ active = {}
  /\ stack = <<>>
  /\ fired = <<>>

\* the calls user code makes: invocations (asynchronous, plain value,
\* throwing) and signal.cancel()
CallsReset ==
  {invoke(1, e, FALSE) : e \in {Async, plain(1), Throw(errorOf(0))}}
    \cup {signalCancel(1)}

\* the positions of the history that record a reset()
Resets == {i \in 1..Len(fired) : fired[i].type = "reset"}

\* user code calls reset(), with or without removeAllListeners
Reset ==
  /\ Cardinality(Resets) < MaxResets
  /\ UserCall({signalReset(1, r) : r \in BOOLEAN}, MaxResetContexts)

NextReset ==
  \/ UserCall(CallsReset, MaxResetContexts)
  \/ Reset
  \/ Fulfil
  \/ Reject
  \/ StepCall
  \/ StepForEach
  \/ StepFn
  \/ StepSignal
  \/ StepResult
  \/ StepThen
  \/ StepCatch
  \/ StepSignalCancel
  \/ StepSignalCancelled
  \/ StepSignalReset
  \/ StepContextCancel
  \/ StepContextDispose

SpecReset == InitReset /\ [][NextReset]_vars

(***************************************************************************)
(* Claims about SpecReset                                                  *)
(***************************************************************************)
\* the latest reset() of the history, 0 when there is none
LastReset == Greatest(Resets)

\* C15: when no code is running and no invocation was made since the latest
\* reset(), the payload is the default, error() is undefined, cancelled() is
\* false and there is no owning context, whatever settled meanwhile; since
\* that reset() the history holds one dispatch, of the emit group, which ran
\* every listener then registered.
C15_ResetRestoresDefaults ==
  /\ stack = <<>>
  /\ LastReset > 0
  /\ Len(ctx) = fired[LastReset].contexts
  => /\ sig[1].payload = sig[1].defaultPayload
     /\ sig[1].error = undefined
     /\ ~sig[1].cancelled
     /\ sig[1].lastContext = NoContext
     /\ {j \in Dispatches : j > LastReset} = {LastReset + 1}
     /\ fired[LastReset + 1].group = EmitGroup(1)
     /\ Pass(LastReset + 1) = fired[LastReset + 1].registered

\* reset() was called while an invocation was pending and the promise
\* fulfilled afterwards: the payload is still the default
C15_Witness ==
  /\ stack = <<>>
  /\ LastReset > 0
  /\ Len(ctx) = 1
  /\ fired[LastReset].contexts = 1
  /\ ctx[1].result = "fulfilled"
  /\ sig[1].payload = 0
  /\ Ran("a") = 1

(***************************************************************************)
(* Specification SpecRemover: user code adds, removes and clears           *)
(***************************************************************************)
\* user code registers a or e on the emit group of signal 1 and keeps the
\* remover
Register ==
  /\ Cardinality({r \in active : r.group = EmitGroup(1)}) < MaxRegistrations
  /\ UserCall({subscribe(EmitGroup(1), Fn(f)) : f \in {"a", "e"}},
              MaxResetContexts)

\* user code calls a remover it was given, for the first time or again
Unregister ==
  UserCall({[r EXCEPT !.op = "remove"] : r \in active}, MaxResetContexts)

NextRemover ==
  \/ Register
  \/ Unregister
  \/ Reset
  \/ StepCall
  \/ StepForEach
  \/ StepFn
  \/ StepAdd
  \/ StepRemove
  \/ StepSignalReset

SpecRemover == InitGroup /\ [][NextRemover]_vars

(***************************************************************************)
(* Claims about SpecRemover                                                *)
(***************************************************************************)
\* the removers made for callback f on group g, spent or not
RemoversOf(g, f) == {r \in active : r.group = g /\ r.callback = f}

\* the positions of callback f in a list, in order
Occurrences(list, f) ==
  SelectSeq([i \in 1..Len(list) |-> i], LAMBDA i : list[i] = f)

\* what is left of group g after the call of remover r, when no remover of
\* r's callback has been called before: the registrations of the callback
\* that clear() did not drop are those of its latest add() calls, in order
After(g, r) ==
  LET places == Occurrences(callbacks[g], r.callback)
      dropped == Cardinality(RemoversOf(g, r.callback)) - Len(places)
  IN IF r.n < dropped THEN callbacks[g]
     ELSE splice(callbacks[g], places[r.n - dropped + 1])

\* C22: a remover called again changes nothing; a remover called for the
\* first time, when no other remover of its callback has been called, takes
\* out the registration its own add() made and no other (the other
\* registrations keep their count and order), and changes nothing when
\* clear() has dropped that registration, also when the callback is
\* registered more than once or again after clear().
C22_RemoverTakesItsOwnRegistration ==
  [][Running("remove") =>
       LET r == Top
           g == r.group
       IN IF r \notin active THEN callbacks' = callbacks
          ELSE (\A q \in RemoversOf(g, r.callback) : q.op = "remove")
               => callbacks' = [callbacks EXCEPT ![g] = After(g, r)]]_vars

(***************************************************************************)
(* Specification SpecWhen: an effect awaits when(s)                        *)
(***************************************************************************)
\* signal 1 is spawned with an effect that awaits when(s); s is signal 2
InitWhen ==
  /\ sig = [s \in 1..2 |-> NewSignal(undefined, NoContext)]
  /\ ctx = <<>>
  /\ wait = <<>>
  /\ chain = <<>>
  /\ callbacks = SignalGroups(1) @@ SignalGroups(2)
  /\ active = {}
  /\ stack = <<>>
  /\ fired = <<>>

\* the calls user code makes: spawn of the effect that awaits when(s); one
\* invocation of s; two invocations of s one after the other. The n-th
\* invocation of the run passes the plain value n or an effect function
\* that throws errorOf(n)
CallsWhen ==
  LET n == Len(ctx) + 1
      Emit(k) == invoke(2, plain(k), FALSE)
      Fail(k) == invoke(2, Throw(errorOf(k)), FALSE)
  IN
  {invoke(1, Effect(<<contextWhen(NoContext, 2)>>, "promise", undefined,
                    FALSE), TRUE),
   Emit(n), Fail(n),
   block(<<Emit(n), Emit(n + 1)>>), block(<<Emit(n), Fail(n + 1)>>)}

\* user code runs in a task of its own: the reactions queued by the task
\* before it have run
CallWhen ==
  /\ Reacting = {}
  /\ UserCall(CallsWhen, MaxWhenContexts)

NextWhen ==
  \/ CallWhen
  \/ WhenThen
  \/ StepBlock
  \/ StepCall
  \/ StepForEach
  \/ StepRemove
  \/ StepSignal
  \/ StepResult
  \/ StepContextDispose
  \/ StepContextWhen
  \/ StepOnDone
  \/ StepReject
  \/ StepResolve

SpecWhen == InitWhen /\ [][NextWhen]_vars

(***************************************************************************)
(* Claims about SpecWhen                                                   *)
(***************************************************************************)
\* the waits made by when()
Watches == {w \in 1..Len(wait) : wait[w].then # "none"}

\* the invocations of the watched signal made after when() was called
Since(w) ==
  {c \in 1..Len(ctx) :
     c > wait[w].context /\ ctx[c].signal = wait[w].signalList[1]}

\* the first of them
First(w) == CHOOSE c \in Since(w) : \A d \in Since(w) : c <= d

\* C16: the promise of when(s) resolves with the payload stored by the first
\* invocation of s made after when() was called (the n-th invocation stores
\* n), and rejects with the error of that invocation if it threw
\* (errorOf(n)); later invocations do not change that.
C16_WhenResolvesWithEmittedPayload ==
  \A w \in Watches :
    /\ wait[w].then = "resolved" => wait[w].value = First(w)
    /\ wait[w].then = "rejected" => wait[w].value = errorOf(First(w))

(***************************************************************************)
(* Specification SpecWaitCancel: the context of a wait is cancelled        *)
(***************************************************************************)
\* signal 1 is spawned with an effect that waits for a (signal 2) and b
\* (signal 3); a listener on a's emit group that cancels signal 1 is
\* registered before any wait, or none
InitWaitCancel ==
  /\ sig = [s \in 1..3 |-> NewSignal(undefined, NoContext)]
  /\ ctx = <<>>
  /\ wait = <<>>
  /\ chain = <<>>
  /\ \E l \in {<<>>, <<listener(signalCancel(1))>>} :
       callbacks = [SignalGroups(1) @@ SignalGroups(2) @@ SignalGroups(3)
                      EXCEPT ![EmitGroup(2)] = l]
  /\ active = {}
  /\ stack = <<>>
  /\ fired = <<>>

\* the calls user code makes: spawn of an effect that awaits
\* context.all({a, b}), context.race({a, b}) or when(a); a and b emit or
\* fail; signal 1 is cancelled
CallsWaitCancel ==
  {invoke(1, e, TRUE) :
     e \in WaitingEffects
            \cup {Effect(<<contextWhen(NoContext, 2)>>, "promise", undefined,
                          FALSE)}}
    \cup {invoke(s, e, FALSE) : s \in {2, 3}, e \in {Value(1), Throw(1)}}
    \cup {signalCancel(1)}

NextWaitCancel ==
  \/ UserCall(CallsWaitCancel, MaxWaitCancelContexts)
  \/ WhenThen
  \/ StepCall
  \/ StepForEach
  \/ StepListener
  \/ StepRemove
  \/ StepSignal
  \/ StepResult
  \/ StepSignalCancel
  \/ StepSignalCancelled
  \/ StepContextCancel
  \/ StepContextDispose
  \/ StepContextWait
  \/ StepContextWhen
  \/ StepOnDone
  \/ StepReject
  \/ StepResolve

SpecWaitCancel == InitWaitCancel /\ [][NextWaitCancel]_vars

(***************************************************************************)
(* Claims about SpecWaitCancel                                             *)
(***************************************************************************)
\* the waits whose context has been cancelled
Abandoned == {w \in Waits : ctx[wait[w].context].cancelled}

\* C17: once the context that owns a wait has been cancelled, the wait holds
\* no listener on any participant when no code is running, and a promise
\* that was unsettled stays unsettled, whatever emits or fails afterwards or
\* in the dispatch under way.
C17_CancelledWaitNeverSettles ==
  /\ [](stack = <<>> => \A w \in Abandoned : ListenersOf(w) = {})
  /\ [][\A w \in Abandoned :
          wait[w].promise = "pending" => wait'[w].promise = "pending"]_vars

====
